---- MODULE Spec2Model ----
(***************************************************************************)
(* Model of Contents/Scripts/default.py (Search in Zotero).                *)
(*                                                                         *)
(* Strings are sequences of tokens (one token = one character or one       *)
(* indivisible run of characters), so that strip(), startswith(), stem     *)
(* and percent-decoding are computed and not assumed.  Python dicts are    *)
(* functions whose DOMAIN is the set of keys present.                      *)
(***************************************************************************)
EXTENDS Integers, Sequences, FiniteSets, TLC

VARIABLES
    pc,                   \* position inside main / _build_semantic_items
    USE_LOCAL_EMBEDDING,  \* global set by _apply_config
    SEMANTIC_MAX_DOCS,    \* global set by _apply_config
    query,                \* the query string, a token sequence
    raw_results,          \* what search(...) returned
    exc,                  \* str(exc) of the primary search failure, or NoExc
    best_by_source,       \* the dict of line 461, in insertion order
    unique_results,       \* the list of line 472 (indices into raw_results)
    attachment_keys,      \* the list of line 481
    meta_by_key,          \* what _load_attachment_meta returned to line 489
    fzf_calls,            \* arguments of every _run_fzf_mode call so far
    fallback_items,       \* what _run_fzf_mode returned to line 451
    emitted,              \* every list handed to _emit so far
    escaped,              \* the exception that left main, or NoExc
    failed,               \* the failure paths this run went through
    sidecars,             \* what _parse_md_meta returned for each source path
    files,                \* the file system: the source database and the temp directory
    inv,                  \* the invocations of _load_attachment_meta running side by side
    rpc,                  \* position of the _resolve_pdf_path call
    arg_raw_path,         \* its argument raw_path
    arg_attachment_key,   \* its argument attachment_key
    attachment_dir,       \* ZOTERO_STORAGE_DIR / attachment_key on disk
    resolved              \* its return value

mainVars == <<pc, USE_LOCAL_EMBEDDING, SEMANTIC_MAX_DOCS, query, raw_results, exc,
              best_by_source, unique_results, attachment_keys, meta_by_key,
              fzf_calls, fallback_items, emitted, escaped, failed, sidecars>>

snapVars == <<files, inv>>

resolveVars == <<rpc, arg_raw_path, arg_attachment_key, attachment_dir, resolved>>

vars == <<mainVars, snapVars, resolveVars>>

-----------------------------------------------------------------------------
(* Bounds of the model.                                                    *)

MaxHits == 3        \* hits per search result in SpecFuse
MaxScore == 1       \* fusion scores are 0..MaxScore
MaxCap == 2         \* SEMANTIC_MAX_DOCS ranges over -MaxCap..MaxCap+1

MaxMainHits == 2    \* hits per search result in Spec
MaxInvocations == 2 \* invocations running side by side in SpecSnap
MaxNames == 2       \* names the temp directory can hand out in SpecSnap
MaxPad == 1         \* spaces before and behind a raw path in SpecResolve
MaxSlashes == 3     \* separators behind the prefix of a raw path in SpecResolve

NoExc == "NoExc"
\* the value of `exc` while the primary search has not raised
NotRaised == [raised |-> FALSE, msg |-> <<>>]

-----------------------------------------------------------------------------
(* String helpers.                                                         *)

IsSpace(t) == t = " "

RECURSIVE LStrip(_)
LStrip(s) ==
    IF s = <<>> THEN <<>>
    ELSE IF IsSpace(Head(s)) THEN LStrip(Tail(s)) ELSE s

RECURSIVE RStrip(_)
RStrip(s) ==
    IF s = <<>> THEN <<>>
    ELSE IF IsSpace(s[Len(s)]) THEN RStrip(SubSeq(s, 1, Len(s) - 1)) ELSE s

\* str.strip()
Strip(s) == RStrip(LStrip(s))

StartsWith(s, p) == Len(s) >= Len(p) /\ SubSeq(s, 1, Len(p)) = p

\* s[n:]
DropFirst(s, n) == SubSeq(s, n + 1, Len(s))

\* a or b, for strings
Or(a, b) == IF a # <<>> THEN a ELSE b

\* {}
EmptyDict == [k \in {} |-> <<>>]

\* d.get(k, default)
Get(d, k, default) == IF k \in DOMAIN d THEN d[k] ELSE default

\* sep.join(parts)
RECURSIVE Join(_, _)
Join(sep, parts) ==
    IF parts = <<>> THEN <<>>
    ELSE IF Len(parts) = 1 THEN parts[1]
    ELSE parts[1] \o sep \o Join(sep, Tail(parts))

\* [x for x in parts if x]
RECURSIVE NonEmpty(_)
NonEmpty(parts) ==
    IF parts = <<>> THEN <<>>
    ELSE IF Head(parts) = <<>> THEN NonEmpty(Tail(parts))
    ELSE <<Head(parts)>> \o NonEmpty(Tail(parts))

\* the tokens that are a file suffix
SuffixTokens == { ".md", ".pdf", ".PDF", ".txt" }

\* pathlib: the tokens behind the last separator, trailing separators dropped
RECURSIVE PathName(_)
PathName(p) ==
    IF p = <<>> THEN <<>>
    ELSE IF p[Len(p)] = "/" THEN PathName(SubSeq(p, 1, Len(p) - 1))
    ELSE IF \E k \in 1..Len(p) : p[k] = "/"
         THEN LET last == CHOOSE k \in 1..Len(p) :
                              p[k] = "/" /\ \A j \in (k + 1)..Len(p) : p[j] # "/"
              IN  DropFirst(p, last)
         ELSE p

\* pathlib: Path(p).stem
Stem(p) ==
    LET name == PathName(p)
    IN  IF Len(name) >= 2 /\ name[Len(name)] \in SuffixTokens
        THEN SubSeq(name, 1, Len(name) - 1)
        ELSE name

-----------------------------------------------------------------------------
(* Deduplication, ordering and truncation of the hits                     *)
(* (_build_semantic_items, lines 461-476).                                 *)

\* float(getattr(result, "fusion_score", 0.0))
FusionScore(result) ==
    IF "fusion_score" \in DOMAIN result THEN result.fusion_score ELSE 0

\* str(getattr(result, "source_path", "")).strip()
SourcePathOf(result) ==
    IF "source_path" \in DOMAIN result THEN Strip(result.source_path) ELSE <<>>

\* best_by_source.get(source_path): the position of the entry, 0 for None
DictPos(d, key) ==
    IF \E k \in 1..Len(d) : d[k].key = key
    THEN CHOOSE k \in 1..Len(d) : d[k].key = key
    ELSE 0

\* line 467: does `result` take the place of `current`?
ReplacesOnTie(results, n, cur) == FusionScore(results[n]) >= FusionScore(results[cur])
Replaces(results, n, cur) == FusionScore(results[n]) > FusionScore(results[cur])

\* the loop of lines 462-470 over the first n results; a dict entry is
\* [key |-> source_path, idx |-> position of the kept result]
RECURSIVE BestBySource(_, _)
BestBySource(results, n) ==
    IF n = 0 THEN <<>>
    ELSE LET prev == BestBySource(results, n - 1)
             source_path == SourcePathOf(results[n])
             pos == DictPos(prev, source_path)
         IN  IF source_path = <<>> THEN prev
             ELSE IF pos = 0
                  THEN Append(prev, [key |-> source_path, idx |-> n])
                  ELSE IF Replaces(results, n, prev[pos].idx)
                       THEN [prev EXCEPT ![pos] = [key |-> source_path, idx |-> n]]
                       ELSE prev

\* best_by_source.values()
Values(d) == [k \in 1..Len(d) |-> d[k].idx]

\* insert x behind every element whose score is >= its own (stable, descending)
RECURSIVE InsertDesc(_, _, _)
InsertDesc(results, sorted, x) ==
    IF sorted = <<>> THEN <<x>>
    ELSE IF FusionScore(results[Head(sorted)]) >= FusionScore(results[x])
         THEN <<Head(sorted)>> \o InsertDesc(results, Tail(sorted), x)
         ELSE <<x>> \o sorted

\* sorted(values, key=fusion_score, reverse=True), lines 472-476
RECURSIVE SortedDescUpTo(_, _, _)
SortedDescUpTo(results, values, n) ==
    IF n = 0 THEN <<>>
    ELSE InsertDesc(results, SortedDescUpTo(results, values, n - 1), values[n])

SortedDesc(results, values) == SortedDescUpTo(results, values, Len(values))

\* seq[:k] with Python's meaning of a negative k
SliceTo(seq, k) ==
    LET stop == IF k >= 0 THEN (IF k < Len(seq) THEN k ELSE Len(seq))
                ELSE (IF Len(seq) + k > 0 THEN Len(seq) + k ELSE 0)
    IN  SubSeq(seq, 1, stop)

\* lines 472-476
UniqueResults(results, d, cap) == SliceTo(SortedDesc(results, Values(d)), cap)


-----------------------------------------------------------------------------
(* Display items (lines 44-49) and the texts the program shows.  The       *)
(* program's Chinese texts are written in English here.                    *)

\* _item_error
_item_error(title, subtitle) == [title |-> title, subtitle |-> subtitle, badge |-> <<"Error">>]

\* _item_info
_item_info(title, subtitle) == [title |-> title, subtitle |-> subtitle]

\* item.get("badge") == "Error"
IsErrorItem(item) == "badge" \in DOMAIN item /\ item.badge = <<"Error">>

\* any(item.get("badge") == "Error" for item in fallback_items), line 452
HasError(items) == \E k \in 1..Len(items) : IsErrorItem(items[k])

T_CONFIG_ERROR == <<"config file error">>                    \* line 561
T_NEED_QUERY == <<"please enter a search keyword">>          \* line 569
T_NEED_SEMANTIC_QUERY == <<"please enter a semantic query">> \* line 579
T_INDEX_ERROR == <<"index configuration error">>             \* line 426
T_NO_API_KEY == <<"OPENROUTER_API_KEY not found">>           \* line 432
T_IMPORT_ERROR == <<"cannot load the semsearch module">>     \* line 437
T_DEGRADED == <<"local semantic search unavailable, used keyword search">> \* line 456
T_SEARCH_FAILED == <<"search failed">>                       \* line 459
T_NO_RESULTS == <<"no matching result">>                     \* line 479
T_NO_HELPER == <<"fzf helper not found">>                    \* line 230
T_FZF_FAILED == <<"fzf search failed">>                      \* line 247
T_NO_MATCHES == <<"No matches">>                             \* line 251
T_FZF_FORMAT == <<"fzf returned a malformed answer">>        \* lines 256, 259

\* str(exc) of the exceptions of the model
Messages == { <<"E1">>, <<"E2">> }

\* SEMANTIC_PREFIX, line 27; the token BQ is the backquote character
SEMANTIC_PREFIX == <<"BQ">>

-----------------------------------------------------------------------------
(* _run_fzf_mode (lines 228-260): every list the call can return for       *)
(* `fzf_query`, over the states of the helper script and its output.       *)

\* json.loads(output) when the helper printed a JSON array
ParsedLists ==
    { <<>>,
      << [title |-> <<"hit1">>, subtitle |-> <<"s1">>] >>,
      << [title |-> <<"hit1">>, subtitle |-> <<"s1">>],
         [title |-> <<"hit2">>, subtitle |-> <<"s2">>, path |-> <<"/", "x", ".pdf">>] >>,
      << [title |-> <<"helper error">>, subtitle |-> <<"s3">>, badge |-> <<"Error">>] >>,
      << [title |-> <<"hit1">>, subtitle |-> <<"s1">>],
         [title |-> <<"helper error">>, subtitle |-> <<"s3">>, badge |-> <<"Error">>] >> }

_run_fzf_mode(fzf_query) ==
    { << _item_error(T_NO_HELPER, <<"missing script">>) >> }                   \* line 230
    \cup { << _item_error(T_FZF_FAILED, err) >> : err \in Messages }           \* line 247
    \cup { << _item_info(T_NO_MATCHES, fzf_query) >> }                         \* line 251
    \cup { << _item_error(T_FZF_FORMAT, <<"not valid JSON">>) >> }             \* line 256
    \cup { << _item_error(T_FZF_FORMAT, <<"not an array">>) >> }               \* line 259
    \cup ParsedLists                                                           \* line 260

-----------------------------------------------------------------------------
(* The primary-failure policy of _build_semantic_items, lines 449-459.     *)

\* line 450: is the alternate search tried?
FallsBackAlways(use_local) == TRUE
FallsBack(use_local) == use_local

\* lines 454-457: fallback_items.insert(0, _item_info(...))
WithDisclosureAtEnd(items, message) == Append(items, _item_info(T_DEGRADED, message))
WithDisclosure(items, message) == <<_item_info(T_DEGRADED, message)>> \o items

\* lines 452-459: what is returned once _run_fzf_mode has returned `items`
AfterFallback(items, message) ==
    IF ~HasError(items) THEN WithDisclosure(items, message)
    ELSE << _item_error(T_SEARCH_FAILED, message) >>

-----------------------------------------------------------------------------
(* Attachment keys and the metadata lookup as _build_semantic_items sees   *)
(* them (lines 481-489 and 325-392).                                       *)

\* str(getattr(result, name, "")).strip()
Attr(result, name) == IF name \in DOMAIN result THEN Strip(result[name]) ELSE <<>>

\* lines 483-485
KeyOf(result) == Or(Attr(result, "doc_id"), Stem(SourcePathOf(result)))

\* lines 481-487
RECURSIVE AttachmentKeys(_, _, _)
AttachmentKeys(results, unique, n) ==
    IF n = 0 THEN <<>>
    ELSE LET prev == AttachmentKeys(results, unique, n - 1)
             key == KeyOf(results[unique[n]])
         IN  IF key # <<>> THEN Append(prev, key) ELSE prev

\* the records a row of the batched query becomes, lines 381-387
MetaRecords ==
    { [parent_title |-> <<"Paper One">>, authors |-> <<"Doe J">>, date |-> <<>>,
       publication |-> <<>>, pdf_path |-> <<"/", "x", ".pdf">>],
      [parent_title |-> <<>>, authors |-> <<>>, date |-> <<>>,
       publication |-> <<>>, pdf_path |-> <<>>] }

SeqRange(s) == { s[k] : k \in 1..Len(s) }

\* _load_attachment_meta, lines 325-392: every way the call can end.  With no
\* key it returns {} before any snapshot is made; otherwise the snapshot can
\* fail (RuntimeError, line 283), the snapshot query can fail (sqlite3.Error,
\* line 375), or the rows found are returned.
_load_attachment_meta(keys) ==
    IF NonEmpty(keys) = <<>>
    THEN { [raised |-> NoExc, value |-> EmptyDict] }
    ELSE { [raised |-> "RuntimeError", value |-> EmptyDict],
           [raised |-> "sqlite3.Error", value |-> EmptyDict] }
         \cup { [raised |-> NoExc, value |-> m] :
                    m \in UNION { [S -> MetaRecords] : S \in SUBSET SeqRange(keys) } }

-----------------------------------------------------------------------------
(* Item assembly, lines 491-554.                                           *)

\* what _parse_md_meta (lines 395-420) can find in the file at a source path
MdMetas ==
    { EmptyDict,
      [attachment_key |-> <<"SK">>, source_pdf |-> <<"/", "s", ".pdf">>,
       zotero_link |-> <<"zotero://sidecar">>] }

\* lines 493-552 for one result; md_meta is _parse_md_meta(source_path)
ItemsFor(result, rank, meta_map, md_meta) ==
    LET source_path == SourcePathOf(result)
        title == Or(Attr(result, "title"), Or(Stem(source_path), <<"(untitled)">>))
        key1 == Or(Attr(result, "doc_id"), Stem(source_path))
        attachment_key == Or(key1, Strip(Get(md_meta, "attachment_key", <<>>)))
        meta == Get(meta_map, attachment_key, EmptyDict)
        authors == Get(meta, "authors", <<>>)
        date == Get(meta, "date", <<>>)
        publication == Get(meta, "publication", <<>>)
        paper_title == Or(Get(meta, "parent_title", <<>>), title)
        meta_text == Join(<<" . ">>, NonEmpty(<<authors, date, publication>>))
        score_text == <<"score=", ToString(FusionScore(result))>>
        base_subtitle == Join(<<" | ">>, <<paper_title, score_text>>
                                         \o (IF meta_text # <<>> THEN <<meta_text>> ELSE <<>>))
        pdf_path == Or(Strip(Get(meta, "pdf_path", <<>>)),
                       Strip(Get(md_meta, "source_pdf", <<>>)))
        file_title == Or(Strip(PathName(pdf_path)), title)
        full_base == [title |-> file_title,
                      subtitle |-> <<"Full PDF | ">> \o base_subtitle,
                      alwaysShowsSubtitle |-> <<"true">>,
                      label |-> <<ToString(rank)>>]
        full_item ==
            IF pdf_path # <<>>
            THEN [k \in DOMAIN full_base \cup {"path", "quickLookURL"} |->
                     IF k \in {"path", "quickLookURL"} THEN pdf_path ELSE full_base[k]]
            ELSE [full_base EXCEPT !.subtitle = @ \o <<" | no PDF path">>]
        zotero_url ==
            IF attachment_key # <<>>
            THEN <<"zotero://open-pdf/library/items/">> \o attachment_key
            ELSE Strip(Get(md_meta, "zotero_link", <<>>))
        zotero_base == [title |-> file_title,
                        subtitle |-> <<"Open in Zotero | ">> \o base_subtitle,
                        alwaysShowsSubtitle |-> <<"true">>]
        zotero_item ==
            IF zotero_url # <<>>
            THEN [k \in DOMAIN zotero_base \cup {"url"} |->
                     IF k = "url" THEN zotero_url ELSE zotero_base[k]]
            ELSE [zotero_base EXCEPT !.subtitle = @ \o <<" | no Zotero link">>]
    IN  <<full_item, zotero_item>>

\* the loop of lines 492-552; md_of gives _parse_md_meta for each source path
RECURSIVE Items(_, _, _, _, _)
Items(results, unique, meta_map, md_of, n) ==
    IF n = 0 THEN <<>>
    ELSE Items(results, unique, meta_map, md_of, n - 1)
         \o ItemsFor(results[unique[n]], n, meta_map,
                     md_of[SourcePathOf(results[unique[n]])])

-----------------------------------------------------------------------------
(* Inputs.                                                                 *)

SeqsUpTo(S, n) == UNION { [1..k -> S] : k \in 0..n }

\* semantic_max_docs as _require_int (lines 73-77) lets it through
Caps == (0 - MaxCap)..(MaxCap + 1)

\* source_path values as the collaborator may report them in SpecFuse
FusePaths == { <<>>, <<" ">>, <<"a">>, <<" ", "a">>, <<"b">> }

FuseHits == [source_path : FusePaths, fusion_score : 0..MaxScore]

\* sys.argv[1:]
Argvs ==
    { <<>>,
      << <<" ">> >>,
      << <<"BQ">> >>,
      << <<"BQ", " ">>, <<" ">> >>,
      << <<"BQ", "q">> >>,
      << <<"BQ">>, <<" ", "q">> >>,
      << <<"q">>, <<"BQ">> >> }

\* " ".join(part.strip() for part in sys.argv[1:] if part.strip()).strip()
QueryOf(argv) ==
    Strip(Join(<<" ">>, NonEmpty([k \in 1..Len(argv) |-> Strip(argv[k])])))

\* the hits the search collaborator reports in Spec
MainHits ==
    { [source_path |-> <<"/", "K1", ".md">>, doc_id |-> <<>>, title |-> <<"T">>,
       fusion_score |-> 1],
      [source_path |-> <<" ", "/", "K1", ".md">>, doc_id |-> <<"K2">>, title |-> <<>>,
       fusion_score |-> 2],
      [source_path |-> <<"/">>, doc_id |-> <<" ">>, title |-> <<>>,
       fusion_score |-> 1],
      [source_path |-> <<>>, doc_id |-> <<"K2">>, title |-> <<"T">>,
       fusion_score |-> 2],
      [source_path |-> <<"/", "d", "/", "K3", ".md">>, doc_id |-> <<>>, title |-> <<"T">>,
       fusion_score |-> 0] }

-----------------------------------------------------------------------------
(* The parts of the state a specification does not move.                   *)

\* the source database; it is file 0, the temp directory holds files 1, 2, ...
ZOTERO_DB_SRC == 0

Absent == [exists |-> FALSE, creator |-> 0, data |-> "none"]

\* zotero.sqlite as the reference manager keeps it
SourceDb == [exists |-> TRUE, creator |-> 0, data |-> "zotero"]

TmpNames == 1..MaxNames

Invocations == 1..MaxInvocations

NoPath == 0 - 1

IdleInvocation == [pc |-> "idle", tmp_path |-> NoPath, conn |-> NoPath,
                   read |-> Absent, exit |-> "none"]

SnapIdle ==
    /\ files = [n \in {ZOTERO_DB_SRC} \cup TmpNames |->
                  IF n = ZOTERO_DB_SRC THEN SourceDb ELSE Absent]
    /\ inv = [i \in Invocations |-> IdleInvocation]

NoDir == [is_dir |-> FALSE, entries |-> {}]

ResolveIdle ==
    /\ rpc = "idle"
    /\ arg_raw_path = <<>>
    /\ arg_attachment_key = <<>>
    /\ attachment_dir = NoDir
    /\ resolved = <<>>

-----------------------------------------------------------------------------
(* main, lines 557-585, and _build_semantic_items, lines 423-554.          *)

\* the globals of lines 25 and 29 and the locals of main before it runs
MainIdle ==
    /\ pc = "main"
    /\ USE_LOCAL_EMBEDDING = TRUE      \* line 25
    /\ SEMANTIC_MAX_DOCS = 8           \* line 29
    /\ query = <<>>
    /\ raw_results = <<>>
    /\ exc = NotRaised
    /\ best_by_source = <<>>
    /\ unique_results = <<>>
    /\ attachment_keys = <<>>
    /\ meta_by_key = EmptyDict
    /\ fzf_calls = <<>>
    /\ fallback_items = <<>>
    /\ emitted = <<>>
    /\ escaped = NoExc
    /\ failed = {}
    /\ sidecars = EmptyDict

Init == MainIdle /\ SnapIdle /\ ResolveIdle

\* _emit(items); return 0
Return(items) ==
    /\ emitted' = Append(emitted, items)
    /\ pc' = "returned"

\* lines 558-562, _load_config raised ValueError
ConfigError ==
    /\ pc = "main"
    /\ \E msg \in Messages : Return(<< _item_error(T_CONFIG_ERROR, msg) >>)
    /\ failed' = failed \cup {"config"}
    /\ UNCHANGED <<snapVars, resolveVars, sidecars, USE_LOCAL_EMBEDDING, SEMANTIC_MAX_DOCS, query, raw_results, exc,
                   best_by_source, unique_results, attachment_keys, meta_by_key,
                   fzf_calls, fallback_items, escaped>>

\* lines 558-559, _apply_config(_load_config()); _require_int takes any integer
ApplyConfig ==
    /\ pc = "main"
    /\ USE_LOCAL_EMBEDDING' \in BOOLEAN
    /\ SEMANTIC_MAX_DOCS' \in Caps
    /\ pc' = "argv"
    /\ UNCHANGED <<snapVars, resolveVars, sidecars, query, raw_results, exc, best_by_source, unique_results,
                   attachment_keys, meta_by_key, fzf_calls, fallback_items, emitted,
                   escaped, failed>>

\* lines 564-584: the query is read and the mode chosen
ReadQuery ==
    /\ pc = "argv"
    /\ \E argv \in Argvs :
         LET q == QueryOf(argv)
             semantic == Strip(DropFirst(q, Len(SEMANTIC_PREFIX)))
         IN  IF q = <<>>
             THEN /\ Return(<< _item_info(T_NEED_QUERY, SEMANTIC_PREFIX) >>)
                  /\ query' = q
             ELSE IF StartsWith(q, SEMANTIC_PREFIX)
             THEN IF semantic = <<>>
                  THEN /\ Return(<< _item_info(T_NEED_SEMANTIC_QUERY, SEMANTIC_PREFIX) >>)
                       /\ query' = semantic
                  ELSE /\ query' = semantic
                       /\ pc' = "validate"
                       /\ UNCHANGED emitted
             ELSE /\ query' = q
                  /\ pc' = "fzf"
                  /\ UNCHANGED emitted
    /\ UNCHANGED <<snapVars, resolveVars, sidecars, USE_LOCAL_EMBEDDING, SEMANTIC_MAX_DOCS, raw_results, exc,
                   best_by_source, unique_results, attachment_keys, meta_by_key,
                   fzf_calls, fallback_items, escaped, failed>>

\* line 584: _emit(_run_fzf_mode(query))
KeywordSearch ==
    /\ pc = "fzf"
    /\ fzf_calls' = Append(fzf_calls, query)
    /\ \E items \in _run_fzf_mode(query) :
         /\ Return(items)
         /\ failed' = IF HasError(items) THEN failed \cup {"alternate"} ELSE failed
    /\ UNCHANGED <<snapVars, resolveVars, sidecars, USE_LOCAL_EMBEDDING, SEMANTIC_MAX_DOCS, query, raw_results, exc,
                   best_by_source, unique_results, attachment_keys, meta_by_key,
                   fallback_items, escaped>>

\* lines 424-426, _validate_semantic_paths found a path missing
PathError ==
    /\ pc = "validate"
    /\ \E msg \in Messages : Return(<< _item_error(T_INDEX_ERROR, msg) >>)
    /\ failed' = failed \cup {"paths"}
    /\ UNCHANGED <<snapVars, resolveVars, sidecars, USE_LOCAL_EMBEDDING, SEMANTIC_MAX_DOCS, query, raw_results, exc,
                   best_by_source, unique_results, attachment_keys, meta_by_key,
                   fzf_calls, fallback_items, escaped>>

\* lines 428-432, the remote backend has no API key
NoApiKey ==
    /\ pc = "validate"
    /\ ~USE_LOCAL_EMBEDDING
    /\ Return(<< _item_error(T_NO_API_KEY, <<"set the API key">>) >>)
    /\ failed' = failed \cup {"api_key"}
    /\ UNCHANGED <<snapVars, resolveVars, sidecars, USE_LOCAL_EMBEDDING, SEMANTIC_MAX_DOCS, query, raw_results, exc,
                   best_by_source, unique_results, attachment_keys, meta_by_key,
                   fzf_calls, fallback_items, escaped>>

\* lines 434-437, _ensure_semsearch_import raised
ImportError ==
    /\ pc = "validate"
    /\ \E msg \in Messages : Return(<< _item_error(T_IMPORT_ERROR, msg) >>)
    /\ failed' = failed \cup {"import"}
    /\ UNCHANGED <<snapVars, resolveVars, sidecars, USE_LOCAL_EMBEDDING, SEMANTIC_MAX_DOCS, query, raw_results, exc,
                   best_by_source, unique_results, attachment_keys, meta_by_key,
                   fzf_calls, fallback_items, escaped>>

\* lines 424-437 passed
Preflight ==
    /\ pc = "validate"
    /\ pc' = "search"
    /\ UNCHANGED <<snapVars, resolveVars, sidecars, USE_LOCAL_EMBEDDING, SEMANTIC_MAX_DOCS, query, raw_results, exc,
                   best_by_source, unique_results, attachment_keys, meta_by_key,
                   fzf_calls, fallback_items, emitted, escaped, failed>>

\* lines 439-448, search(...) returned its hits
SearchReturns ==
    /\ pc = "search"
    /\ raw_results' \in SeqsUpTo(MainHits, MaxMainHits)
    /\ pc' = "dedup"
    /\ UNCHANGED <<snapVars, resolveVars, sidecars, USE_LOCAL_EMBEDDING, SEMANTIC_MAX_DOCS, query, exc,
                   best_by_source, unique_results, attachment_keys, meta_by_key,
                   fzf_calls, fallback_items, emitted, escaped, failed>>

\* lines 449-459, search(...) raised and the alternate search is not tried
SearchRaisesNoFallback ==
    /\ pc = "search"
    /\ ~FallsBack(USE_LOCAL_EMBEDDING)
    /\ \E msg \in Messages :
         /\ exc' = [raised |-> TRUE, msg |-> msg]
         /\ Return(<< _item_error(T_SEARCH_FAILED, msg) >>)
    /\ failed' = failed \cup {"primary"}
    /\ UNCHANGED <<snapVars, resolveVars, sidecars, USE_LOCAL_EMBEDDING, SEMANTIC_MAX_DOCS, query, raw_results,
                   best_by_source, unique_results, attachment_keys, meta_by_key,
                   fzf_calls, fallback_items, escaped>>

\* lines 449-459, search(...) raised and _run_fzf_mode(query) is called
SearchRaisesFallback ==
    /\ pc = "search"
    /\ FallsBack(USE_LOCAL_EMBEDDING)
    /\ fzf_calls' = Append(fzf_calls, query)
    /\ \E msg \in Messages, items \in _run_fzf_mode(query) :
         /\ exc' = [raised |-> TRUE, msg |-> msg]
         /\ fallback_items' = items
         /\ Return(AfterFallback(items, msg))
         /\ failed' = failed \cup {"primary"}
                      \cup (IF HasError(items) THEN {"alternate"} ELSE {})
    /\ UNCHANGED <<snapVars, resolveVars, sidecars, USE_LOCAL_EMBEDDING, SEMANTIC_MAX_DOCS, query, raw_results,
                   best_by_source, unique_results, attachment_keys, meta_by_key,
                   escaped>>

\* lines 461-470
Dedup ==
    /\ pc = "dedup"
    /\ best_by_source' = BestBySource(raw_results, Len(raw_results))
    /\ pc' = "rank"
    /\ UNCHANGED <<snapVars, resolveVars, sidecars, USE_LOCAL_EMBEDDING, SEMANTIC_MAX_DOCS, query, raw_results, exc,
                   unique_results, attachment_keys, meta_by_key, fzf_calls,
                   fallback_items, emitted, escaped, failed>>

\* lines 472-476
Rank ==
    /\ pc = "rank"
    /\ unique_results' = UniqueResults(raw_results, best_by_source, SEMANTIC_MAX_DOCS)
    /\ pc' = "ranked"
    /\ UNCHANGED <<snapVars, resolveVars, sidecars, USE_LOCAL_EMBEDDING, SEMANTIC_MAX_DOCS, query, raw_results, exc,
                   best_by_source, attachment_keys, meta_by_key, fzf_calls,
                   fallback_items, emitted, escaped, failed>>

\* lines 478-479
NoResults ==
    /\ pc = "ranked"
    /\ unique_results = <<>>
    /\ Return(<< _item_info(T_NO_RESULTS, <<"try other keywords">>) >>)
    /\ UNCHANGED <<snapVars, resolveVars, sidecars, USE_LOCAL_EMBEDDING, SEMANTIC_MAX_DOCS, query, raw_results, exc,
                   best_by_source, unique_results, attachment_keys, meta_by_key,
                   fzf_calls, fallback_items, escaped, failed>>

\* lines 481-489, _load_attachment_meta returned
LoadMeta ==
    /\ pc = "ranked"
    /\ unique_results # <<>>
    /\ LET keys == AttachmentKeys(raw_results, unique_results, Len(unique_results))
       IN  /\ attachment_keys' = keys
           /\ \E out \in _load_attachment_meta(keys) :
                /\ out.raised = NoExc
                /\ meta_by_key' = out.value
    /\ pc' = "items"
    /\ UNCHANGED <<snapVars, resolveVars, sidecars, USE_LOCAL_EMBEDDING, SEMANTIC_MAX_DOCS, query, raw_results, exc,
                   best_by_source, unique_results, fzf_calls, fallback_items,
                   emitted, escaped, failed>>

\* lines 481-489, _load_attachment_meta raised: nothing between line 489 and
\* the top of main catches it
LoadMetaRaises ==
    /\ pc = "ranked"
    /\ unique_results # <<>>
    /\ LET keys == AttachmentKeys(raw_results, unique_results, Len(unique_results))
       IN  /\ attachment_keys' = keys
           /\ \E out \in _load_attachment_meta(keys) :
                /\ out.raised # NoExc
                /\ escaped' = out.raised
                /\ failed' = failed \cup
                     {IF out.raised = "RuntimeError" THEN "snapshot" ELSE "database"}
    /\ pc' = "crashed"
    /\ UNCHANGED <<snapVars, resolveVars, sidecars, USE_LOCAL_EMBEDDING, SEMANTIC_MAX_DOCS, query, raw_results, exc,
                   best_by_source, unique_results, meta_by_key, fzf_calls,
                   fallback_items, emitted>>

\* lines 491-554 and line 581
BuildItems ==
    /\ pc = "items"
    /\ \E md_of \in [ { SourcePathOf(raw_results[unique_results[k]]) :
                          k \in 1..Len(unique_results) } -> MdMetas ] :
         /\ sidecars' = md_of
         /\ Return(Items(raw_results, unique_results, meta_by_key, md_of,
                         Len(unique_results)))
    /\ UNCHANGED <<snapVars, resolveVars, USE_LOCAL_EMBEDDING, SEMANTIC_MAX_DOCS, query, raw_results, exc,
                   best_by_source, unique_results, attachment_keys, meta_by_key,
                   fzf_calls, fallback_items, escaped, failed>>

Next ==
    \/ ConfigError \/ ApplyConfig \/ ReadQuery \/ KeywordSearch
    \/ PathError \/ NoApiKey \/ ImportError \/ Preflight
    \/ SearchReturns \/ SearchRaisesNoFallback \/ SearchRaisesFallback
    \/ Dedup \/ Rank \/ NoResults \/ LoadMeta \/ LoadMetaRaises \/ BuildItems

Spec == Init /\ [][Next]_vars

-----------------------------------------------------------------------------
(* The fusion step on its own: lines 461-476 for every hit list and cap.   *)

InitFuse ==
    /\ pc = "dedup"
    /\ USE_LOCAL_EMBEDDING = TRUE
    /\ SEMANTIC_MAX_DOCS \in Caps
    /\ query = <<"q">>
    /\ raw_results \in SeqsUpTo(FuseHits, MaxHits)
    /\ exc = NotRaised
    /\ best_by_source = <<>>
    /\ unique_results = <<>>
    /\ attachment_keys = <<>>
    /\ meta_by_key = EmptyDict
    /\ fzf_calls = <<>>
    /\ fallback_items = <<>>
    /\ emitted = <<>>
    /\ escaped = NoExc
    /\ failed = {}
    /\ sidecars = EmptyDict
    /\ SnapIdle
    /\ ResolveIdle

NextFuse == Dedup \/ Rank

SpecFuse == InitFuse /\ [][NextFuse]_vars

-----------------------------------------------------------------------------
(* _create_db_snapshot (lines 263-288) and _load_attachment_meta (lines    *)
(* 325-392), run by several invocations side by side on one temp           *)
(* directory.  A file is [exists, creator, data]: creator is the           *)
(* invocation that created it (0 for the reference manager).               *)

\* tempfile.mkstemp, line 264: the names it can return; it opens the file
\* with O_CREAT | O_EXCL, so never one that exists
AnyName(fs) == TmpNames
FreshNames(fs) == { n \in TmpNames : ~fs[n].exists }

\* a file created empty by invocation i
Create(fs, n, i) == [fs EXCEPT ![n] = [exists |-> TRUE, creator |-> i, data |-> "empty"]]

\* data written to the path n, which is created when it is missing
WriteData(fs, n, i, d) ==
    [fs EXCEPT ![n] = [exists |-> TRUE,
                       creator |-> IF fs[n].exists THEN fs[n].creator ELSE i,
                       data |-> d]]

\* Path.unlink(missing_ok=True), lines 282 and 392
UnlinkNothing(fs, n) == fs
Unlink(fs, n) == [fs EXCEPT ![n] = Absent]

\* src_conn.backup(dst_conn), line 273, and shutil.copy2(src, dst), line 278
CopyInto(fs, src, dst, i) == WriteData(fs, dst, i, fs[src].data)

\* lines 326-328: no key, {} is returned and no snapshot is made
NoKeys(i) ==
    /\ inv[i].pc = "idle"
    /\ inv' = [inv EXCEPT ![i].pc = "returned", ![i].exit = "ok"]
    /\ UNCHANGED <<mainVars, resolveVars, files>>

\* line 330: _create_db_snapshot(ZOTERO_DB_SRC) is called
Call(i) ==
    /\ inv[i].pc = "idle"
    /\ inv' = [inv EXCEPT ![i].pc = "mkstemp"]
    /\ UNCHANGED <<mainVars, resolveVars, files>>

\* lines 264-266
Mkstemp(i) ==
    /\ inv[i].pc = "mkstemp"
    /\ \E n \in FreshNames(files) :
         /\ files' = Create(files, n, i)
         /\ inv' = [inv EXCEPT ![i].pc = "backup", ![i].tmp_path = n]
    /\ UNCHANGED <<mainVars, resolveVars>>

\* lines 270-275: the backup API copies the source into the temp file
BackupOk(i) ==
    /\ inv[i].pc = "backup"
    /\ files' = CopyInto(files, ZOTERO_DB_SRC, inv[i].tmp_path, i)
    /\ inv' = [inv EXCEPT ![i].pc = "connect"]
    /\ UNCHANGED <<mainVars, resolveVars>>

\* line 276: sqlite3.Error, with the temp file untouched or half written
BackupFails(i) ==
    /\ inv[i].pc = "backup"
    /\ \/ UNCHANGED files
       \/ files' = WriteData(files, inv[i].tmp_path, i, "partial")
    /\ inv' = [inv EXCEPT ![i].pc = "copy"]
    /\ UNCHANGED <<mainVars, resolveVars>>

\* lines 278-279
CopyOk(i) ==
    /\ inv[i].pc = "copy"
    /\ files' = CopyInto(files, ZOTERO_DB_SRC, inv[i].tmp_path, i)
    /\ inv' = [inv EXCEPT ![i].pc = "connect"]
    /\ UNCHANGED <<mainVars, resolveVars>>

\* lines 280-283: OSError; the temp file is removed and RuntimeError raised,
\* which leaves _load_attachment_meta at line 330, before its try
CopyFails(i) ==
    /\ inv[i].pc = "copy"
    /\ files' = IF files[inv[i].tmp_path].exists
                THEN Unlink(files, inv[i].tmp_path) ELSE files
    /\ inv' = [inv EXCEPT ![i].pc = "raised", ![i].tmp_path = NoPath,
                          ![i].exit = "RuntimeError"]
    /\ UNCHANGED <<mainVars, resolveVars>>

\* line 333
Connect(i) ==
    /\ inv[i].pc = "connect"
    /\ inv' = [inv EXCEPT ![i].pc = "query", ![i].conn = inv[i].tmp_path]
    /\ UNCHANGED <<mainVars, resolveVars, files>>

\* line 333 raised
ConnectFails(i) ==
    /\ inv[i].pc = "connect"
    /\ inv' = [inv EXCEPT ![i].pc = "finally", ![i].exit = "sqlite3.Error"]
    /\ UNCHANGED <<mainVars, resolveVars, files>>

\* line 375: the batched query reads the file the connection is on
QueryOk(i) ==
    /\ inv[i].pc = "query"
    /\ inv' = [inv EXCEPT ![i].pc = "resolve", ![i].read = files[inv[i].conn]]
    /\ UNCHANGED <<mainVars, resolveVars, files>>

\* line 375 raised
QueryFails(i) ==
    /\ inv[i].pc = "query"
    /\ inv' = [inv EXCEPT ![i].pc = "finally", ![i].exit = "sqlite3.Error"]
    /\ UNCHANGED <<mainVars, resolveVars, files>>

\* lines 376-388
RowsOk(i) ==
    /\ inv[i].pc = "resolve"
    /\ inv' = [inv EXCEPT ![i].pc = "finally", ![i].exit = "ok"]
    /\ UNCHANGED <<mainVars, resolveVars, files>>

\* lines 376-388, _resolve_pdf_path raised while reading the storage directory
RowsFail(i) ==
    /\ inv[i].pc = "resolve"
    /\ inv' = [inv EXCEPT ![i].pc = "finally", ![i].exit = "OSError"]
    /\ UNCHANGED <<mainVars, resolveVars, files>>

\* lines 389-392
Finally(i) ==
    /\ inv[i].pc = "finally"
    /\ files' = Unlink(files, inv[i].tmp_path)
    /\ inv' = [inv EXCEPT ![i].pc = IF inv[i].exit = "ok" THEN "returned" ELSE "raised",
                          ![i].conn = NoPath, ![i].tmp_path = NoPath]
    /\ UNCHANGED <<mainVars, resolveVars>>

\* the process ends; another one may be started
Exit(i) ==
    /\ inv[i].pc \in {"returned", "raised"}
    /\ inv' = [inv EXCEPT ![i] = IdleInvocation]
    /\ UNCHANGED <<mainVars, resolveVars, files>>

NextSnap ==
    \E i \in Invocations :
        \/ NoKeys(i) \/ Call(i) \/ Mkstemp(i) \/ BackupOk(i) \/ BackupFails(i)
        \/ CopyOk(i) \/ CopyFails(i) \/ Connect(i) \/ ConnectFails(i)
        \/ QueryOk(i) \/ QueryFails(i) \/ RowsOk(i) \/ RowsFail(i)
        \/ Finally(i) \/ Exit(i)

SpecSnap == Init /\ [][NextSnap]_vars

-----------------------------------------------------------------------------
(* _resolve_pdf_path, lines 291-322.  The attachment directory is          *)
(* [is_dir, entries]; an entry is [name, is_file].                         *)

\* ZOTERO_STORAGE_DIR, line 32
ZOTERO_STORAGE_DIR == <<"/storage">>

\* str(ZOTERO_STORAGE_DIR / attachment_key / name)
StoragePath(key, name) == ZOTERO_STORAGE_DIR \o <<"/">> \o key \o <<"/">> \o name

\* the entries a directory of the model can hold, in the order sorted() gives
\* their paths (upper case sorts before lower case)
NameOrder ==
    << <<"B", ".PDF">>, <<"a", ".pdf">>, <<"c", ".txt">>, <<"d", ".pdf">> >>

RankOf(name) == CHOOSE k \in 1..Len(NameOrder) : NameOrder[k] = name

\* s.lstrip("/")
RECURSIVE LStripSlash(_)
LStripSlash(s) ==
    IF s = <<>> THEN <<>>
    ELSE IF Head(s) = "/" THEN LStripSlash(Tail(s)) ELSE s

\* pathlib drops the separators that end a path
RECURSIVE RStripSlash(_)
RStripSlash(s) ==
    IF s = <<>> THEN <<>>
    ELSE IF s[Len(s)] = "/" THEN RStripSlash(SubSeq(s, 1, Len(s) - 1)) ELSE s

\* Path.suffix.lower()
LowerSuffix(name) ==
    IF Len(name) >= 2 /\ name[Len(name)] \in SuffixTokens
    THEN (IF name[Len(name)] = ".PDF" THEN ".pdf" ELSE name[Len(name)])
    ELSE ""

\* (attachment_dir / rel).exists(), line 299
Exists(dir, rel) ==
    dir.is_dir /\ \E e \in dir.entries : e.name = RStripSlash(rel)

\* sorted(...)[0], lines 302-304 and 319-321
LastPdf(pdfs) == CHOOSE e \in pdfs : \A f \in pdfs : RankOf(f.name) <= RankOf(e.name)
FirstPdf(pdfs) == CHOOSE e \in pdfs : \A f \in pdfs : RankOf(e.name) <= RankOf(f.name)

\* lines 301-305 and 317-322
ScanDir(dir, key) ==
    IF dir.is_dir
    THEN LET pdfs == { e \in dir.entries : e.is_file /\ LowerSuffix(e.name) = ".pdf" }
         IN  IF pdfs # {} THEN StoragePath(key, FirstPdf(pdfs).name) ELSE <<>>
    ELSE <<>>

\* re.sub(r"^file:(//)?", "", raw), line 308
StripScheme(raw) ==
    LET rest == DropFirst(raw, 1)
    IN  IF StartsWith(rest, <<"/", "/">>) THEN DropFirst(rest, 2) ELSE rest

\* urllib.parse.unquote, line 309
Unquote(s) ==
    [k \in 1..Len(s) |-> IF s[k] = "%20" THEN " " ELSE IF s[k] = "%2F" THEN "/" ELSE s[k]]

_resolve_pdf_path(raw_path_, key, dir) ==
    LET raw == Strip(raw_path_)
    IN  IF StartsWith(raw, <<"storage:">>)
        THEN LET rel == LStripSlash(DropFirst(raw, 1))
             IN  IF rel # <<>> /\ Exists(dir, rel)
                 THEN StoragePath(key, RStripSlash(rel))
                 ELSE ScanDir(dir, key)
        ELSE IF StartsWith(raw, <<"file:">>)
        THEN LET file_path == Unquote(StripScheme(raw))
             IN  IF file_path # <<>> /\ Head(file_path) # "/"
                 THEN <<"/">> \o file_path
                 ELSE file_path
        ELSE IF raw # <<>> THEN raw
        ELSE ScanDir(dir, key)

\* n separators, n spaces
Slashes(n) == [k \in 1..n |-> "/"]
Spaces(n) == [k \in 1..n |-> " "]

\* ia.path values of the model
RawPaths ==
    { Spaces(l) \o prefix \o Slashes(n) \o body \o Spaces(r) :
        l \in 0..MaxPad, r \in 0..MaxPad, n \in 0..MaxSlashes,
        prefix \in { <<>>, <<"storage:">>, <<"file:">> },
        body \in { <<>>, <<"a", ".pdf">>, <<"a", ".pdf", "/">>, <<"d", ".pdf">>,
                   <<"x", ".pdf">>, <<"my", "%20", "doc", ".pdf">>,
                   <<"%2F", "a", ".pdf">> } }

DirEntries ==
    { [name |-> <<"B", ".PDF">>, is_file |-> TRUE],
      [name |-> <<"a", ".pdf">>, is_file |-> TRUE],
      [name |-> <<"c", ".txt">>, is_file |-> TRUE],
      [name |-> <<"d", ".pdf">>, is_file |-> FALSE] }

Dirs == { NoDir } \cup { [is_dir |-> TRUE, entries |-> S] : S \in SUBSET DirEntries }

InitResolve ==
    /\ MainIdle
    /\ SnapIdle
    /\ rpc = "call"
    /\ arg_raw_path \in RawPaths
    /\ arg_attachment_key \in { <<"K1">>, <<"K2">> }
    /\ attachment_dir \in Dirs
    /\ resolved = <<>>

\* line 386: _resolve_pdf_path(str(row["raw_path"] or ""), key)
Resolve ==
    /\ rpc = "call"
    /\ resolved' = _resolve_pdf_path(arg_raw_path, arg_attachment_key, attachment_dir)
    /\ rpc' = "resolved"
    /\ UNCHANGED <<mainVars, snapVars, arg_raw_path, arg_attachment_key, attachment_dir>>

NextResolve == Resolve

SpecResolve == InitResolve /\ [][NextResolve]_vars

-----------------------------------------------------------------------------
(* Properties of the fusion step.                                          *)

\* the stripped source path of hit n
PathAt(n) == SourcePathOf(raw_results[n])

ScoreAt(n) == FusionScore(raw_results[n])

\* the hits the dict of line 461 holds
Survivors == { best_by_source[k].idx : k \in 1..Len(best_by_source) }

\* C1: after the deduplication loop every survivor is a hit with a non-empty
\* stripped source_path, no two survivors have the same stripped source_path,
\* every non-empty stripped source_path of the input has a survivor, whose
\* fusion_score is >= that of every hit of the path and which is the earliest
\* of the hits of the path that reach that score.
C1_DedupCorrect ==
    pc \in {"rank", "ranked"} =>
        /\ \A s \in Survivors : s \in 1..Len(raw_results) /\ PathAt(s) # <<>>
        /\ \A j, k \in 1..Len(best_by_source) :
               j # k => PathAt(best_by_source[j].idx) # PathAt(best_by_source[k].idx)
        /\ \A n \in 1..Len(raw_results) :
               PathAt(n) # <<>> =>
                   \E s \in Survivors :
                       /\ PathAt(s) = PathAt(n)
                       /\ ScoreAt(s) >= ScoreAt(n)
                       /\ ScoreAt(s) = ScoreAt(n) => s <= n

\* three hits of one document, reported under differently padded paths, the
\* last two tied for the best score: the second one survives
C1_Witness ==
    /\ pc = "rank"
    /\ Len(raw_results) = 3
    /\ PathAt(1) # <<>> /\ PathAt(1) = PathAt(2) /\ PathAt(2) = PathAt(3)
    /\ raw_results[2].source_path # raw_results[3].source_path
    /\ ScoreAt(1) < ScoreAt(2) /\ ScoreAt(2) = ScoreAt(3)
    /\ Survivors = {2}

\* C2: the fused list holds at most SEMANTIC_MAX_DOCS results and its
\* fusion_scores do not increase from first to last, for every integer cap.
C2_CapAndOrder ==
    pc = "ranked" =>
        /\ Len(unique_results) <= SEMANTIC_MAX_DOCS
        /\ \A k \in 1..(Len(unique_results) - 1) :
               ScoreAt(unique_results[k]) >= ScoreAt(unique_results[k + 1])

-----------------------------------------------------------------------------
(* Properties of main and of the primary-failure policy.                   *)

Terminated == pc \in {"returned", "crashed"}

\* the list main handed to _emit
Output == emitted[Len(emitted)]

\* C3: a run of main that went through a failure path ends with no exception
\* leaving main and with a list of at least one item emitted.
C3_EveryFailureEmits ==
    (Terminated /\ failed # {}) =>
        /\ escaped = NoExc
        /\ emitted # <<>>
        /\ Output # <<>>

\* C4: under the local backend, an exception while obtaining or fusing the
\* primary results, one of the metadata lookup included, leads to one call
\* of _run_fzf_mode with the query, and the alternate's items are what is
\* returned (behind the disclosure item, and unless the alternate reports an
\* error itself, which is the case of C6).
C4_FusingFailureFallsBack ==
    (Terminated /\ USE_LOCAL_EMBEDDING
        /\ failed \cap {"primary", "snapshot", "database"} # {}) =>
        /\ fzf_calls = <<query>>
        /\ escaped = NoExc
        /\ emitted # <<>>
        /\ \/ HasError(fallback_items)
           \/ Output = fallback_items
           \/ /\ Len(Output) = Len(fallback_items) + 1
              /\ \A k \in 1..Len(fallback_items) : Output[k + 1] = fallback_items[k]

PrimaryFailedLocal == pc = "returned" /\ exc.raised /\ USE_LOCAL_EMBEDDING

\* C5: the primary search raised under the local backend and the alternate
\* search returned a list without an error-marked item: the output is one
\* item without the error marker whose subtitle is the failure's message,
\* followed by the alternate's items, unchanged and in their order.
C5_DisclosureThenAlternate ==
    (PrimaryFailedLocal /\ ~HasError(fallback_items)) =>
        /\ fzf_calls = <<query>>
        /\ Len(emitted) = 1
        /\ Len(Output) = Len(fallback_items) + 1
        /\ ~IsErrorItem(Output[1])
        /\ Output[1].subtitle = exc.msg
        /\ \A k \in 1..Len(fallback_items) : Output[k + 1] = fallback_items[k]

C5_Witness ==
    /\ PrimaryFailedLocal
    /\ ~HasError(fallback_items)
    /\ Len(fallback_items) = 2
    /\ Len(Output) = 3

\* C6: the primary search raised under the local backend and the alternate
\* search returned an error-marked item: the output is the alternate's list,
\* with no disclosure item and no other item.
C6_AlternateErrorShown ==
    (PrimaryFailedLocal /\ HasError(fallback_items)) =>
        /\ Len(emitted) = 1
        /\ Output = fallback_items

\* C7: the primary search raised under the remote backend: _run_fzf_mode was
\* never called and the output is one error-marked item whose subtitle is the
\* failure's message.
C7_RemoteFailureSurfaced ==
    (pc = "returned" /\ exc.raised /\ ~USE_LOCAL_EMBEDDING) =>
        /\ fzf_calls = <<>>
        /\ Len(emitted) = 1
        /\ Len(Output) = 1
        /\ IsErrorItem(Output[1])
        /\ Output[1].subtitle = exc.msg

C7_Witness ==
    /\ pc = "returned"
    /\ exc.raised
    /\ ~USE_LOCAL_EMBEDDING
    /\ fzf_calls = <<>>
    /\ IsErrorItem(Output[1])

-----------------------------------------------------------------------------
(* Properties of the snapshot.                                             *)

\* the temp files invocation i created that are still on disk
FilesOf(i) == { n \in TmpNames : files[n].exists /\ files[n].creator = i }

\* C8: when an invocation of _load_attachment_meta has returned or raised,
\* no temp file it created is left on disk.
C8_SnapshotReleased ==
    \A i \in Invocations :
        inv[i].pc \in {"returned", "raised"} => FilesOf(i) = {}

\* one invocation left through the failure of both copies, the other after a
\* query of its snapshot
C8_Witness ==
    /\ inv[1].pc = "raised" /\ inv[1].exit = "RuntimeError"
    /\ inv[2].pc = "returned" /\ inv[2].read.exists
    /\ FilesOf(1) = {} /\ FilesOf(2) = {}

\* C9: the source database is never written or deleted; an invocation that
\* holds a temp path holds a file it created itself, which is still on disk;
\* no two invocations hold the same path; and what a query read is the
\* invocation's own copy of the source.
C9_SnapshotIsolation ==
    /\ files[ZOTERO_DB_SRC] = SourceDb
    /\ \A i \in Invocations :
           inv[i].tmp_path # NoPath =>
               /\ inv[i].tmp_path \in TmpNames
               /\ files[inv[i].tmp_path].exists
               /\ files[inv[i].tmp_path].creator = i
    /\ \A i, j \in Invocations :
           (i # j /\ inv[i].tmp_path # NoPath) => inv[i].tmp_path # inv[j].tmp_path
    /\ \A i \in Invocations :
           inv[i].conn # NoPath => inv[i].conn = inv[i].tmp_path
    /\ \A i \in Invocations :
           inv[i].pc = "resolve" =>
               /\ inv[i].read.exists
               /\ inv[i].read.creator = i
               /\ inv[i].read.data = SourceDb.data

\* invocation 1 has deleted its snapshot while invocation 2 is between its
\* query and its own deletion
C9_Witness ==
    /\ inv[1].pc = "returned" /\ inv[1].read.exists
    /\ inv[2].pc = "resolve" /\ inv[2].read.creator = 2

-----------------------------------------------------------------------------
(* Properties of the path resolver.                                        *)

\* the regular files of the attachment directory with the document extension
PdfFiles ==
    IF attachment_dir.is_dir
    THEN { e \in attachment_dir.entries :
              e.is_file /\ e.name[Len(e.name)] \in {".pdf", ".PDF"} }
    ELSE {}

\* res is the first such file in sorted order, or empty when there is none
IsScanResult(res) ==
    IF PdfFiles = {} THEN res = <<>>
    ELSE \E e \in PdfFiles :
            /\ res = ZOTERO_STORAGE_DIR \o <<"/">> \o arg_attachment_key \o <<"/">> \o e.name
            /\ \A f \in PdfFiles : RankOf(e.name) <= RankOf(f.name)

\* the entry of the attachment directory that rel names, if any
EntryAt(rel) ==
    IF attachment_dir.is_dir
    THEN { e \in attachment_dir.entries : e.name = RStripSlash(rel) }
    ELSE {}

\* what follows "file:" and an optional "//", percent-decoded
DecodedRest(field) ==
    LET rest == DropFirst(field, 1)
        path == IF Len(rest) >= 2 /\ rest[1] = "/" /\ rest[2] = "/"
                THEN DropFirst(rest, 2) ELSE rest
    IN  [k \in 1..Len(path) |->
            IF path[k] = "%20" THEN " " ELSE IF path[k] = "%2F" THEN "/" ELSE path[k]]

\* C10 as stated: the four cases are taken on the raw field as it is given
\* (1) storage-relative: storageDir/identifier/rel when that file exists,
\* else the first document file of the directory in sorted order, else empty;
\* (2) file URI: the scheme-stripped, percent-decoded path with a leading
\* slash; (3) any other non-empty field: the field itself; (4) empty field:
\* the directory scan of case 1.
C10_AsStated ==
    rpc = "resolved" =>
        IF StartsWith(arg_raw_path, <<"storage:">>)
        THEN LET rel == LStripSlash(DropFirst(arg_raw_path, 1))
             IN  IF \E e \in EntryAt(rel) : e.is_file
                 THEN resolved = ZOTERO_STORAGE_DIR \o <<"/">> \o arg_attachment_key
                                 \o <<"/">> \o RStripSlash(rel)
                 ELSE IsScanResult(resolved)
        ELSE IF StartsWith(arg_raw_path, <<"file:">>)
        THEN /\ resolved # <<>>
             /\ Head(resolved) = "/"
             /\ resolved \in { DecodedRest(arg_raw_path),
                               <<"/">> \o DecodedRest(arg_raw_path) }
        ELSE IF arg_raw_path # <<>> THEN resolved = arg_raw_path
        ELSE IsScanResult(resolved)

\* C10 as amended: the cases are taken on the field without the white space
\* around it; (1) storage-relative: storageDir/identifier/rel when rel is not
\* empty and that path exists, as a file or as a directory, else the first
\* regular file of the directory with the document extension in sorted order,
\* else empty; (2) file URI: the scheme-stripped, percent-decoded path, with
\* a leading slash unless the path is empty; (3) any other non-empty field:
\* the field without the white space around it; (4) empty or blank field:
\* the directory scan of case 1.
C10_ResolveCases ==
    rpc = "resolved" =>
        LET field == Strip(arg_raw_path)
        IN  IF StartsWith(field, <<"storage:">>)
            THEN LET rel == LStripSlash(DropFirst(field, 1))
                 IN  IF rel # <<>> /\ EntryAt(rel) # {}
                     THEN resolved = ZOTERO_STORAGE_DIR \o <<"/">> \o arg_attachment_key
                                     \o <<"/">> \o RStripSlash(rel)
                     ELSE IsScanResult(resolved)
            ELSE IF StartsWith(field, <<"file:">>)
            THEN IF DecodedRest(field) = <<>> THEN resolved = <<>>
                 ELSE /\ Head(resolved) = "/"
                      /\ resolved \in { DecodedRest(field), <<"/">> \o DecodedRest(field) }
                      /\ Head(DecodedRest(field)) = "/" => resolved = DecodedRest(field)
            ELSE IF field # <<>> THEN resolved = field
            ELSE IsScanResult(resolved)

\* a padded storage-relative field whose file is missing, in a directory
\* that holds two document files and a directory named like one
C10_Witness ==
    /\ rpc = "resolved"
    /\ arg_raw_path = <<" ", "storage:", "/", "x", ".pdf", " ">>
    /\ attachment_dir = [is_dir |-> TRUE, entries |-> DirEntries]
    /\ resolved = ZOTERO_STORAGE_DIR \o <<"/">> \o arg_attachment_key \o <<"/", "B", ".PDF">>

-----------------------------------------------------------------------------
(* Properties of the item assembly.                                        *)

\* the hit ranked n
HitAt(n) == raw_results[unique_results[n]]

\* the title the hit has by itself, line 494
OwnTitle(h) == Or(Attr(h, "title"), Or(Stem(SourcePathOf(h)), <<"(untitled)">>))

\* C11: when the metadata join returned a record for the identifier of a
\* surviving hit, a record whose resolved PDF path is empty included, the
\* file path, the title and the URL of the hit's two items are those the
\* record and the hit give, with no field of the sidecar file in them: the
\* path is the record's PDF path and is absent when that is empty, the title
\* is the file name of that path or else the hit's own title, and the URL is
\* the deep link of the identifier.
C11_SidecarOnlyWithoutRecord ==
    (pc = "returned" /\ unique_results # <<>>) =>
        \A n \in 1..Len(unique_results) :
            LET key == KeyOf(HitAt(n))
                full == Output[2 * n - 1]
                zotero == Output[2 * n]
            IN  key \in DOMAIN meta_by_key =>
                    LET pdf == Strip(meta_by_key[key].pdf_path)
                    IN  /\ IF pdf # <<>>
                           THEN "path" \in DOMAIN full /\ full.path = pdf
                           ELSE "path" \notin DOMAIN full
                        /\ full.title = Or(Strip(PathName(pdf)), OwnTitle(HitAt(n)))
                        /\ zotero.title = full.title
                        /\ "url" \in DOMAIN zotero
                        /\ zotero.url = <<"zotero://open-pdf/library/items/">> \o key

====
